---- MODULE Spec2Model ----
(***************************************************************************)
(* A model of the workert request pipeline (src/src/worker.ts): the fetch  *)
(* handler that decodes a request, type-checks and lowers the source with  *)
(* compileCode, wraps the lowered text in the codemode harness, loads it   *)
(* into a dynamic worker through env.LOADER and forwards the answer.       *)
(* The last part models the call-forwarding proxy of src/src/stub-stub.ts. *)
(*                                                                         *)
(* Strings whose structure matters are sequences of tokens: "a" \o "b" of  *)
(* the source is <<"a">> \o <<"b">> here, the empty string is <<>>.        *)
(* A JavaScript property whose value is undefined is modelled as a field   *)
(* that is absent from the record, which is also how JSON.stringify        *)
(* renders it.                                                             *)
(***************************************************************************)
EXTENDS Integers, Sequences, FiniteSets, TLC

\* Longest list of pre-emit diagnostics the engine reports in this model.
MaxPre == 2

\* Longest list of diagnostics program.emit reports in this model.
MaxEmit == 1

\* Requests in flight at the same time in SpecConc.
NumReqs == 2

\* Longest lists of pre-emit and of emit diagnostics in SpecCheck.
MaxPreCheck == 2
MaxEmitCheck == 2

VARIABLES
  reqs,     \* request id -> the locals of that invocation of fetch()
  issued,   \* the identifiers crypto.randomUUID() has returned so far
  calls     \* call id -> the state of that call through a stubStub proxy

vars == <<reqs, issued, calls>>

-----------------------------------------------------------------------------
(* Text *)

WS == " "

RECURSIVE trimStart(_)
trimStart(s) ==
  IF Len(s) > 0 /\ Head(s) = WS THEN trimStart(Tail(s)) ELSE s

RECURSIVE trimEnd(_)
trimEnd(s) ==
  IF Len(s) > 0 /\ s[Len(s)] = WS THEN trimEnd(SubSeq(s, 1, Len(s) - 1)) ELSE s

\* Mutant of trim: the text is left as it is.
trimNothing(s) == s

\* String.prototype.trim
trim(s) == trimEnd(trimStart(s))

\* String.prototype.startsWith / endsWith, for a one-token needle
startsWith(s, tok) == Len(s) > 0 /\ s[1] = tok

endsWith(s, tok) == Len(s) > 0 /\ s[Len(s)] = tok

\* Tokens of a JSON text: braces, the key "code" with its colon, string
\* literals and a number literal.
LBrace == "{"

RBrace == "}"

CodeKey == "\"code\":"

JsonStringLiterals == {"\"a\"", "\" \"", "\"\""}

JsonNumberLiteral == "1"

\* The characters a JSON string literal denotes.
stringValue(tok) ==
  CASE tok = "\"a\"" -> <<"a">>
    [] tok = "\" \"" -> <<WS>>
    [] tok = "\"\"" -> <<>>

stripWs(s) == SelectSeq(s, LAMBDA c : c # WS)

\* JSON.parse(text).code for a text that starts with "{": the parse throws a
\* SyntaxError unless the text is an object; the code property is a string,
\* a number, or undefined when the object has no such key.
JSONparse(text) ==
  LET t == stripWs(text) IN
  IF t = <<LBrace, RBrace>>
    THEN [ok |-> TRUE, codeType |-> "undefined", code |-> <<>>]
  ELSE IF Len(t) = 4 /\ t[1] = LBrace /\ t[2] = CodeKey /\ t[4] = RBrace
          /\ t[3] \in JsonStringLiterals
    THEN [ok |-> TRUE, codeType |-> "string", code |-> stringValue(t[3])]
  ELSE IF Len(t) = 4 /\ t[1] = LBrace /\ t[2] = CodeKey /\ t[4] = RBrace
          /\ t[3] = JsonNumberLiteral
    THEN [ok |-> TRUE, codeType |-> "number", code |-> <<>>]
  ELSE [ok |-> FALSE, codeType |-> "undefined", code |-> <<>>]

-----------------------------------------------------------------------------
(* Requests *)

\* POST bodies: blank, raw source, JSON objects with and without a string
\* code field, a JSON object behind leading whitespace, and a source text
\* that starts with "{" without being JSON.
Bodies ==
  { <<>>, <<WS>>, <<"a">>, <<WS, "a", WS>>,
    <<LBrace, CodeKey, "\"a\"", RBrace>>,
    <<WS, LBrace, CodeKey, "\"a\"", RBrace>>,
    <<LBrace, CodeKey, "\" \"", RBrace>>,
    <<LBrace, CodeKey, "\"\"", RBrace>>,
    <<LBrace, RBrace>>,
    <<LBrace, CodeKey, JsonNumberLiteral, RBrace>>,
    <<LBrace, "a">> }

\* The code query parameter: absent (<<>>) or present with a text (<<text>>).
Queries == { <<>>, << <<>> >>, << <<WS>> >>, << <<"a">> >> }

Requests ==
  {[method |-> "GET", pathname |-> "/", query |-> q, body |-> <<>>] : q \in Queries}
  \cup {[method |-> "POST", pathname |-> "/", query |-> <<>>, body |-> b] : b \in Bodies}
  \cup {[method |-> m, pathname |-> "/", query |-> <<>>, body |-> <<"a">>] :
          m \in {"OPTIONS", "PUT"}}
  \cup {[method |-> m, pathname |-> "/stub-stub", query |-> <<>>, body |-> <<>>] :
          m \in {"GET", "POST", "OPTIONS", "PUT"}}
  \cup {[method |-> "GET", pathname |-> "/stub-stub", query |-> << <<"a">> >>,
          body |-> <<>>]}

-----------------------------------------------------------------------------
(* The compiler frontend adapter: compileCode and formatDiagnostics *)

\* A leaf of a DiagnosticMessageChain; a messageText that is a plain string
\* is a chain without next.
leaf(text) == [messageText |-> text, next |-> <<>>]

\* Diagnostics of the engine (ts.Diagnostic): file and start may be missing;
\* lineAndChar is what d.file.getLineAndCharacterOfPosition(d.start) answers;
\* the category "Other" stands for a value outside the four the switch names.
EngineDiags ==
  { [category |-> "Error", code |-> 2322, file |-> TRUE, start |-> <<6>>,
     lineAndChar |-> [line |-> 0, character |-> 6],
     messageText |-> [messageText |-> <<"Type 'string' is not assignable">>,
                      next |-> <<leaf(<<"to type 'number'">>)>>]],
    [category |-> "Warning", code |-> 6133, file |-> TRUE, start |-> <<0>>,
     lineAndChar |-> [line |-> 1, character |-> 0],
     messageText |-> leaf(<<"'x' is declared but never used">>)],
    [category |-> "Suggestion", code |-> 80001, file |-> TRUE, start |-> <<>>,
     lineAndChar |-> [line |-> 0, character |-> 0],
     messageText |-> leaf(<<"File is a CommonJS module">>)],
    [category |-> "Message", code |-> 6031, file |-> FALSE, start |-> <<2>>,
     lineAndChar |-> [line |-> 0, character |-> 2],
     messageText |-> leaf(<<"Starting compilation">>)],
    [category |-> "Other", code |-> 5055, file |-> FALSE, start |-> <<>>,
     lineAndChar |-> [line |-> 0, character |-> 0],
     messageText |-> leaf(<<"Cannot write file">>)] }

\* Sequences over S of length at most n.
SeqsUpTo(S, n) == UNION {[1..k -> S] : k \in 0..n}

\* Values codemode can return or throw, written as JavaScript literals.
GuestValues == {"2", "'hi'", "null", "undefined", "NaN", "10n"}

\* Lowered texts program.emit can write: the token sequence names the guest
\* program, which its semantics below reads back.
LoweredTexts ==
  { <<"const x = 1;">>, <<"const codemode = 1;">>, <<"throw new Error('load');">> }
  \cup {<<"async function codemode() { return ", v, " }">> : v \in GuestValues}
  \cup {<<"async function codemode() { throw new Error(", m, ") }">> :
          m \in {"'boom'", "''"}}
  \cup {<<"async function codemode() { throw ", v, " }">> : v \in {"'oops'", "42"}}

\* What program.emit hands to the writeFile callback and returns.
EmitResults ==
  {[files |-> f, diagnostics |-> ds] :
     f \in {<<>>} \cup {<<[fileName |-> <<"/input", ".js">>, text |-> t]>> :
                          t \in LoweredTexts},
     ds \in SeqsUpTo(EngineDiags, MaxEmit)}

RECURSIVE flattenNext(_)
RECURSIVE flattenDiagnosticMessage(_)
flattenDiagnosticMessage(messageText) ==
  messageText.messageText \o flattenNext(messageText.next)

flattenNext(next) ==
  IF next = <<>> THEN <<>>
  ELSE <<"\n  ">> \o flattenDiagnosticMessage(Head(next)) \o flattenNext(Tail(next))

getCategoryString(category) ==
  CASE category = "Error" -> "error"
    [] category = "Warning" -> "warning"
    [] category = "Suggestion" -> "suggestion"
    [] category = "Message" -> "message"
    [] OTHER -> "error"

\* Mutant of convertDiagnostic: the line is left as the engine counts it.
convertDiagnosticZeroBased(d) ==
  IF d.file /\ d.start # <<>>
    THEN [message |-> flattenDiagnosticMessage(d.messageText), code |-> d.code,
          category |-> getCategoryString(d.category),
          line |-> d.lineAndChar.line, column |-> d.lineAndChar.character]
    ELSE [message |-> flattenDiagnosticMessage(d.messageText), code |-> d.code,
          category |-> getCategoryString(d.category)]

\* The conversion of one pre-emit diagnostic (the map callback).
convertDiagnostic(d) ==
  IF d.file /\ d.start # <<>>
    THEN [message |-> flattenDiagnosticMessage(d.messageText), code |-> d.code,
          category |-> getCategoryString(d.category),
          line |-> d.lineAndChar.line + 1, column |-> d.lineAndChar.character]
    ELSE [message |-> flattenDiagnosticMessage(d.messageText), code |-> d.code,
          category |-> getCategoryString(d.category)]

\* The conversion of one emit diagnostic: no line, no column.
convertEmitDiagnostic(d) ==
  [message |-> flattenDiagnosticMessage(d.messageText), code |-> d.code,
   category |-> getCategoryString(d.category)]

\* Mutant of hasErrors: every() in place of some().
hasErrorsEvery(diagnostics) ==
  \A i \in 1..Len(diagnostics) : diagnostics[i].category = "error"

\* Mutant of hasErrors: a diagnostic of any category counts.
hasErrorsAnyCategory(diagnostics) == diagnostics # <<>>

\* diagnostics.some((d) => d.category === "error")
hasErrors(diagnostics) ==
  \E i \in 1..Len(diagnostics) : diagnostics[i].category = "error"

\* The writeFile callback over the files of one emit: js is the text of the
\* last file whose name ends with ".js", and "" when there is none.
RECURSIVE writeFiles(_, _)
writeFiles(js, files) ==
  IF files = <<>> THEN js
  ELSE writeFiles(IF endsWith(Head(files).fileName, ".js") THEN Head(files).text ELSE js,
                  Tail(files))

\* Mutant of emittedJs: the emit is not guarded by the errors.
emittedJsUnguarded(errors, emitResult) == writeFiles(<<>>, emitResult.files)

\* The js that compileCode returns.
emittedJs(errors, emitResult) ==
  IF ~errors THEN writeFiles(<<>>, emitResult.files) ELSE <<>>

\* Mutant of emitDiagnostics: the emit diagnostics are pushed last first.
emitDiagnosticsReversed(errors, emitResult) ==
  IF ~errors
    THEN [i \in 1..Len(emitResult.diagnostics) |->
            convertEmitDiagnostic(
              emitResult.diagnostics[Len(emitResult.diagnostics) + 1 - i])]
    ELSE <<>>

\* The diagnostics pushed after the emit.
emitDiagnostics(errors, emitResult) ==
  IF ~errors
    THEN [i \in 1..Len(emitResult.diagnostics) |->
            convertEmitDiagnostic(emitResult.diagnostics[i])]
    ELSE <<>>

\* compileCode, given what the engine answers for the source: allDiagnostics
\* (ts.getPreEmitDiagnostics) and emitResult (program.emit, if it is called).
compileCode(allDiagnostics, emitResult) ==
  LET diagnostics == [i \in 1..Len(allDiagnostics) |-> convertDiagnostic(allDiagnostics[i])]
      errors == hasErrors(diagnostics)
  IN [js |-> emittedJs(errors, emitResult),
      diagnostics |-> diagnostics \o emitDiagnostics(errors, emitResult),
      success |-> ~errors,
      emitCalls |-> IF errors THEN 0 ELSE 1]

RECURSIVE joinLines(_)
joinLines(lines) ==
  IF lines = <<>> THEN <<>>
  ELSE IF Len(lines) = 1 THEN Head(lines)
  ELSE Head(lines) \o <<"\n">> \o joinLines(Tail(lines))

\* Mutant of formatDiagnostic: the location is left out.
formatDiagnosticNoLocation(d) ==
  <<d.category, " TS", ToString(d.code)>> \o <<": ">> \o d.message

\* The map callback of formatDiagnostics, lines 425-434.
formatDiagnostic(d) ==
  LET location == IF "line" \in DOMAIN d
                    THEN <<":", ToString(d.line), ":", ToString(d.column)>>
                    ELSE <<>>
      prefix == IF d.category = "error" THEN "error"
                ELSE IF d.category = "warning" THEN "warning"
                ELSE d.category
  IN <<prefix, " TS", ToString(d.code)>> \o location \o <<": ">> \o d.message

formatDiagnostics(diagnostics) ==
  joinLines([i \in 1..Len(diagnostics) |-> formatDiagnostic(diagnostics[i])])

-----------------------------------------------------------------------------
(* The entry module and the sandbox that runs it *)

\* The fixed harness text that follows the lowered code in wrappedJs.
Harness == "export default { async fetch(request) { ... } };"

\* Mutant of wrapJs: the lowered code is left out of the module.
wrapJsHarnessOnly(js) == <<"\n">> \o <<"\n\n", Harness, "\n">>

\* The template literal of wrappedJs.
wrapJs(js) == <<"\n">> \o js \o <<"\n\n", Harness, "\n">>

\* The lowered code inside a module text built by wrapJs.
moduleBody(module) == SubSeq(module, 2, Len(module) - 3)

\* What the lowered code does when the module is evaluated and codemode is
\* called: whether evaluation succeeds, what typeof codemode is, and whether
\* codemode returns a value or throws one.
guestProgram(js) ==
  LET none == [loads |-> TRUE, typeofCodemode |-> "undefined", outcome |-> "none",
               value |-> "undefined", isError |-> FALSE, message |-> <<>>]
  IN
  CASE js = <<"const codemode = 1;">> -> [none EXCEPT !.typeofCodemode = "number"]
    [] js = <<"throw new Error('load');">> -> [none EXCEPT !.loads = FALSE]
    [] Len(js) = 3 /\ js[1] = "async function codemode() { return " ->
         [none EXCEPT !.typeofCodemode = "function", !.outcome = "return",
                      !.value = js[2]]
    [] Len(js) = 3 /\ js[1] = "async function codemode() { throw new Error(" ->
         [none EXCEPT !.typeofCodemode = "function", !.outcome = "throw",
                      !.isError = TRUE,
                      !.message = IF js[2] = "'boom'" THEN <<"boom">> ELSE <<>>]
    [] Len(js) = 3 /\ js[1] = "async function codemode() { throw " ->
         [none EXCEPT !.typeofCodemode = "function", !.outcome = "throw",
                      !.value = js[2]]
    [] OTHER -> none

\* String(value) of a JavaScript value.
String(value) ==
  CASE value = "'oops'" -> <<"oops">>
    [] value = "'hi'" -> <<"hi">>
    [] value = "10n" -> <<"10">>
    [] OTHER -> <<value>>

\* JSON.stringify of a property value: a BigInt makes it throw, undefined makes
\* it leave the key out, NaN becomes null, a string is quoted.
jsonThrows(value) == value = "10n"

jsonOmits(value) == value = "undefined"

jsonValue(value) ==
  CASE value = "NaN" -> "null"
    [] value = "'hi'" -> "\"hi\""
    [] OTHER -> value

\* Response.json(data, {status}): the status and the JSON text of the body,
\* kept as the object the text denotes.
ResponseJson(data, status) == [status |-> status, parseable |-> TRUE, json |-> data]

\* Mutant of harnessCatch: String(error) whatever the error is.
harnessCatchString(isError, message, value) ==
  ResponseJson([success |-> FALSE, error |-> String(value)], 500)

\* The harness's catch block.
harnessCatch(isError, message, value) ==
  ResponseJson([success |-> FALSE,
                error |-> IF isError THEN message ELSE String(value)], 500)

\* The harness's fetch over a module body that loaded: the answer of the
\* dynamic worker.
harnessFetch(js) ==
  LET g == guestProgram(js) IN
  IF g.typeofCodemode # "function"
    THEN ResponseJson(
           [success |-> FALSE,
            error |-> <<"No 'codemode' function found. Your code must define: ",
                        "async function codemode() { ... }">>], 400)
  ELSE IF g.outcome = "throw"
    THEN harnessCatch(g.isError, g.message, g.value)
  ELSE IF jsonThrows(g.value)
    THEN harnessCatch(TRUE, <<"Do not know how to serialize a BigInt">>, g.value)
  ELSE IF jsonOmits(g.value)
    THEN ResponseJson([success |-> TRUE], 200)
  ELSE ResponseJson([success |-> TRUE, result |-> jsonValue(g.value)], 200)

\* Mutant of harnessCalls: codemode is called before typeof is looked at.
harnessCallsUnchecked(js) == 1

\* How often the harness calls codemode in one fetch.
harnessCalls(js) == IF guestProgram(js).typeofCodemode = "function" THEN 1 ELSE 0

\* Errors of the loader and of the sandbox runtime, as the catch sees them.
LoaderErrors == {<<"Worker loader quota exceeded">>}

EntrypointErrors == {<<"No such entrypoint">>}

FetchErrors == {<<"Worker exceeded CPU time limit.">>}

ModuleLoadError == <<"Uncaught Error: load">>

\* A response of the sandbox whose body is no JSON text.
BrokenResponses == {[status |-> 500, parseable |-> FALSE, json |-> [success |-> FALSE]]}

\* The identifiers crypto.randomUUID() can return.
Uuids == {"uuid-1", "uuid-2", "uuid-3"}

-----------------------------------------------------------------------------
(* The request orchestrator: fetch() *)

jsonResponse(data, status) ==
  [status |-> status, contentType |-> "application/json", allowOrigin |-> "*",
   body |-> data]

\* The locals of fetch() when the handler is entered for request q.
locals(q) ==
  [request |-> q, pc |-> "start", code |-> <<>>, compileResult |-> <<>>,
   wrappedJs |-> <<>>, workerId |-> <<>>, loaderGets |-> <<>>, fetchCalls |-> 0,
   compileCalls |-> 0, codemodeCalls |-> 0, response |-> <<>>, result |-> <<>>,
   resp |-> <<>>, thrown |-> <<>>, caught |-> <<>>, engine |-> <<>>,
   phases |-> <<>>]

\* The phase the handler enters, written to the history of the request.
enter(l, phase) == [l EXCEPT !.phases = Append(l.phases, phase)]

Set(r, l) == reqs' = [reqs EXCEPT ![r] = l] /\ UNCHANGED calls

\* return <response> from fetch()
return(l, response) ==
  [enter(l, "respond") EXCEPT !.pc = "done", !.resp = Append(l.resp, response)]

\* Mutant of catch: the dispatch is tried again.
catchRetry(l, stage, message, response) ==
  [l EXCEPT !.pc = "dispatch",
            !.caught = <<[stage |-> stage, message |-> message]>>]

\* catch (error) of lines 173-180, entered from the named step of the try block
catch(l, stage, message, response) ==
  [enter(l, "respond") EXCEPT
     !.pc = "done", !.resp = Append(l.resp, response),
     !.caught = <<[stage |-> stage, message |-> message]>>]

\* an exception that leaves fetch() uncaught
throw(l, error) == [l EXCEPT !.pc = "thrown", !.thrown = <<error>>]

\* Mutant of preflightResponse: the preflight is answered without the
\* cross-origin headers.
preflightPlain ==
  [status |-> 200, contentType |-> "none", allowOrigin |-> "none",
   allowMethods |-> "none", allowHeaders |-> "none", body |-> [null |-> TRUE]]

\* Lines 38-44: new Response(null, {headers}); no status is given, so it is 200.
preflightResponse ==
  [status |-> 200, contentType |-> "none", allowOrigin |-> "*",
   allowMethods |-> "POST, OPTIONS", allowHeaders |-> "Content-Type",
   body |-> [null |-> TRUE]]

\* Mutant of methodNotAllowed: the refusal is sent as a 400.
methodNotAllowed400 ==
  jsonResponse([success |-> FALSE, error |-> <<"Method not allowed">>], 400)

\* Line 60: the answer to a method other than GET, POST and OPTIONS.
methodNotAllowed ==
  jsonResponse([success |-> FALSE, error |-> <<"Method not allowed">>], 405)

\* Mutant of isStubStubRoute: every path is taken for the demo route.
stubStubEverywhere(request) == TRUE

\* Line 32: url.pathname === "/stub-stub", tested before the method.
isStubStubRoute(request) == request.pathname = "/stub-stub"

\* Lines 29-61 up to the first await: the /stub-stub route, the preflight,
\* and the dispatch on the method.
Route(r) ==
  LET l == reqs[r] IN
  /\ l.pc = "start"
  /\ UNCHANGED issued
  /\ IF isStubStubRoute(l.request)
       THEN Set(r, [l EXCEPT !.pc = "stubDemo"])
     ELSE IF l.request.method = "OPTIONS"
       THEN Set(r, return(l, preflightResponse))
     ELSE IF l.request.method \in {"GET", "POST"}
       THEN Set(r, [l EXCEPT !.pc = "decode"])
     ELSE Set(r, return(l, methodNotAllowed))

\* handleStubStubDemo: the demo page.
StubDemo(r) ==
  LET l == reqs[r] IN
  /\ l.pc = "stubDemo"
  /\ UNCHANGED issued
  /\ Set(r, return(l, [status |-> 200, contentType |-> "text/html",
                       allowOrigin |-> "none", body |-> [html |-> "stubStub Demo"]]))

\* Mutant of isJsonBody: the body is trimmed before it is looked at.
isJsonBodyTrimmed(text) == startsWith(trim(text), LBrace)

\* text.startsWith("{"): the body is taken as a JSON object.
isJsonBody(text) == startsWith(text, LBrace)

\* Lines 47-63: the source text of the request, or the exception that
\* JSON.parse or code.trim() raises.
decode(request) ==
  IF request.method = "GET"
    THEN [thrown |-> <<>>,
          code |-> trim(IF request.query = <<>> THEN <<>> ELSE request.query[1])]
  ELSE IF isJsonBody(request.body)
    THEN LET parsed == JSONparse(request.body) IN
         IF ~parsed.ok THEN [thrown |-> <<"SyntaxError">>, code |-> <<>>]
         ELSE IF parsed.codeType # "string"
           THEN [thrown |-> <<"TypeError">>, code |-> <<>>]
         ELSE [thrown |-> <<>>, code |-> trim(parsed.code)]
  ELSE [thrown |-> <<>>, code |-> trim(request.body)]

Decode(r) ==
  LET l == enter(reqs[r], "decode")
      d == decode(l.request)
  IN
  /\ l.pc = "decode"
  /\ UNCHANGED issued
  /\ IF d.thrown # <<>>
       THEN Set(r, throw(l, d.thrown[1]))
       ELSE Set(r, [l EXCEPT !.pc = "validate", !.code = d.code])

\* Lines 65-105: the page for a GET without code, the empty-body failure.
Validate(r) ==
  LET l == reqs[r] IN
  /\ l.pc = "validate"
  /\ UNCHANGED issued
  /\ IF l.code = <<>> /\ l.request.method = "GET"
       THEN Set(r, return(l, [status |-> 200, contentType |-> "text/html",
                              allowOrigin |-> "*",
                              body |-> [html |-> "write some typescript code below"]]))
     ELSE IF trim(l.code) = <<>>
       THEN Set(r, return(l, jsonResponse(
              [success |-> FALSE,
               error |-> <<"Request body is empty. Please provide TypeScript code.">>],
              400)))
     ELSE Set(r, [l EXCEPT !.pc = "check"])

\* Lines 109-118: the response to a failed check.
checkFailure(compileResult) ==
  jsonResponse(
    [success |-> FALSE,
     error |-> <<"TypeScript compilation failed:", "\n">>
                 \o formatDiagnostics(compileResult.diagnostics),
     diagnostics |-> compileResult.diagnostics],
    400)

\* Mutant of gateCloses: the gate is left open.
gateNeverCloses(compileResult) == FALSE

\* !compileResult.success: the check gate.
gateCloses(compileResult) == ~compileResult.success

\* Lines 107-118: compileCode and the gate on its result.
CheckOn(r, diagnosticLists, emitResults) ==
  LET l == reqs[r] IN
  /\ l.pc = "check"
  /\ UNCHANGED issued
  /\ \E allDiagnostics \in diagnosticLists, emitResult \in emitResults :
       LET compileResult == compileCode(allDiagnostics, emitResult)
           m == [enter(l, "check") EXCEPT !.compileResult = <<compileResult>>,
                          !.compileCalls = l.compileCalls + 1,
                          !.engine = <<[allDiagnostics |-> allDiagnostics,
                                        emit |-> IF compileResult.emitCalls = 1
                                                   THEN <<emitResult>> ELSE <<>>]>>]
       IN IF gateCloses(compileResult)
            THEN Set(r, return(m, checkFailure(compileResult)))
            ELSE Set(r, [m EXCEPT !.pc = "synthesize"])

Check(r) == CheckOn(r, SeqsUpTo(EngineDiags, MaxPre), EmitResults)

\* Mutant of loweredJs: the lowered code is kept in a variable of the module,
\* which the request that compiled last has written.
loweredJsShared(r) ==
  LET passed == {q \in DOMAIN reqs : /\ reqs[q].compileResult # <<>>
                                      /\ reqs[q].compileResult[1].success}
      last == CHOOSE q \in passed : \A p \in passed : p <= q
  IN reqs[last].compileResult[1].js

\* ${result.js} of line 122: result is a local of the call.
loweredJs(r) == reqs[r].compileResult[1].js

\* Lines 120-148: the entry module around the lowered code.
Synthesize(r) ==
  LET l == reqs[r] IN
  /\ l.pc = "synthesize"
  /\ UNCHANGED issued
  /\ Set(r, [enter(l, "synthesize") EXCEPT
                !.pc = "dispatch", !.wrappedJs = wrapJs(loweredJs(r))])

\* Mutant of executionFailed: the diagnostics key is sent along.
executionFailedWithDiagnostics(message) ==
  jsonResponse([success |-> FALSE, error |-> <<"Execution failed: ">> \o message,
                diagnostics |-> <<>>], 500)

\* Mutant of executionFailed: the message is sent without the prefix.
executionFailedBare(message) ==
  jsonResponse([success |-> FALSE, error |-> message], 500)

\* The catch block of lines 173-180.
executionFailed(message) ==
  jsonResponse([success |-> FALSE, error |-> <<"Execution failed: ">> \o message], 500)

\* Mutant of workerCode: globalOutbound is not set, so the worker inherits the
\* parent's network access.
workerCodeWithNetwork(wrappedJs) ==
  [compatibilityDate |-> "2025-06-01", mainModule |-> "code.js",
   modules |-> [name \in {"code.js"} |-> wrappedJs],
   globalOutbound |-> "undefined", env |-> {}]

\* Mutant of randomUUID: the identifier is derived from the source text.
workerIdOfSource(l, used) == {IF l.code = <<"a">> THEN "uuid-1" ELSE "uuid-2"}

\* Line 151, crypto.randomUUID(): an identifier that has not been handed out
\* before, whatever the request is.
randomUUID(l, used) == Uuids \ used

\* The worker code the loader callback of lines 155-164 returns.
workerCode(wrappedJs) ==
  [compatibilityDate |-> "2025-06-01", mainModule |-> "code.js",
   modules |-> [name \in {"code.js"} |-> wrappedJs],
   globalOutbound |-> "null", env |-> {}]

\* Lines 150-168 up to the await: a fresh identifier, LOADER.get,
\* getEntrypoint and the call of entrypoint.fetch; either of the first two
\* may throw into the catch block.
Dispatch(r) ==
  LET l == reqs[r] IN
  /\ l.pc = "dispatch"
  /\ \E workerId \in randomUUID(l, issued) :
       LET m == [enter(l, "dispatch") EXCEPT !.workerId = <<workerId>>,
                          !.loaderGets = Append(l.loaderGets,
                             [id |-> workerId, code |-> workerCode(l.wrappedJs)])]
       IN
       /\ issued' = issued \cup {workerId}
       /\ \/ \E e \in LoaderErrors :
               Set(r, catch(m, "LOADER.get", e, executionFailed(e)))
          \/ \E e \in EntrypointErrors :
               Set(r, catch(m, "getEntrypoint", e, executionFailed(e)))
          \/ Set(r, [m EXCEPT !.pc = "awaitFetch", !.fetchCalls = l.fetchCalls + 1])

\* entrypoint.fetch in the dynamic worker: the module given to the loader is
\* evaluated and the harness answers, unless evaluation fails or the runtime
\* does; line 168 resumes with the response or in the catch block.
SandboxFetch(r) ==
  LET l == reqs[r]
      code == l.loaderGets[Len(l.loaderGets)].code
      js == moduleBody(code.modules[code.mainModule])
  IN
  /\ l.pc = "awaitFetch"
  /\ UNCHANGED issued
  /\ IF ~guestProgram(js).loads
       THEN Set(r, catch(l, "entrypoint.fetch", ModuleLoadError,
                          executionFailed(ModuleLoadError)))
       ELSE \/ Set(r, [l EXCEPT !.pc = "json", !.response = <<harnessFetch(js)>>,
                                !.codemodeCalls = l.codemodeCalls + harnessCalls(js)])
            \/ \E e \in FetchErrors :
                 Set(r, catch(l, "entrypoint.fetch", e, executionFailed(e)))
            \/ \E b \in BrokenResponses :
                 Set(r, [l EXCEPT !.pc = "json", !.response = <<b>>])

\* Line 171: response.json(), which rejects into the catch block when the
\* body is no JSON text.
ParseJson(r) ==
  LET l == reqs[r] IN
  /\ l.pc = "json"
  /\ UNCHANGED issued
  /\ IF l.response[1].parseable
       THEN Set(r, [l EXCEPT !.pc = "respond", !.result = <<l.response[1].json>>])
       ELSE Set(r, catch(l, "response.json", <<"Unexpected token">>,
                          executionFailed(<<"Unexpected token">>)))

\* Mutant of forwardStatus: jsonResponse's default status.
forwardStatusDefault(response) == 200

\* The status under which the sandbox's answer is passed on.
forwardStatus(response) == response.status

\* Line 172: the sandbox's answer is passed on.
Respond(r) ==
  LET l == reqs[r] IN
  /\ l.pc = "respond"
  /\ UNCHANGED issued
  /\ Set(r, return(l, jsonResponse(l.result[1], forwardStatus(l.response[1]))))

\* The requests in flight.
Rids == {1}

Init ==
  /\ \E q \in Requests : reqs = [r \in Rids |-> locals(q)]
  /\ issued = {}
  /\ calls = <<>>

Next ==
  \/ \E r \in Rids : Route(r)
  \/ \E r \in Rids : StubDemo(r)
  \/ \E r \in Rids : Decode(r)
  \/ \E r \in Rids : Validate(r)
  \/ \E r \in Rids : Check(r)
  \/ \E r \in Rids : Synthesize(r)
  \/ \E r \in Rids : Dispatch(r)
  \/ \E r \in Rids : SandboxFetch(r)
  \/ \E r \in Rids : ParseJson(r)
  \/ \E r \in Rids : Respond(r)

Spec == Init /\ [][Next]_vars

\* Requests in flight at the same time. The handler of each runs the steps
\* above; a step of one request can fall between any two steps of another,
\* which covers the interleavings at the awaits of lines 53, 168 and 171.
ConcRids == 1..NumReqs

ConcRequests ==
  { [method |-> "POST", pathname |-> "/", query |-> <<>>, body |-> <<"a">>],
    [method |-> "POST", pathname |-> "/", query |-> <<>>, body |-> <<LBrace, "a">>],
    [method |-> "GET", pathname |-> "/stub-stub", query |-> <<>>, body |-> <<>>] }

ConcDiagnosticLists ==
  {<<>>} \cup {<<d>> : d \in {e \in EngineDiags : e.category = "Error"}}

ConcEmitResults ==
  {[files |-> <<[fileName |-> <<"/input", ".js">>, text |-> t]>>, diagnostics |-> <<>>] :
     t \in { <<"async function codemode() { return ", "2", " }">>,
             <<"async function codemode() { throw new Error(", "'boom'", ") }">> }}

ConcCheck(r) == CheckOn(r, ConcDiagnosticLists, ConcEmitResults)

ConcInit ==
  /\ reqs \in [ConcRids -> {locals(q) : q \in ConcRequests}]
  /\ issued = {}
  /\ calls = <<>>

ConcNext ==
  \/ \E r \in ConcRids : Route(r)
  \/ \E r \in ConcRids : StubDemo(r)
  \/ \E r \in ConcRids : Decode(r)
  \/ \E r \in ConcRids : Validate(r)
  \/ \E r \in ConcRids : ConcCheck(r)
  \/ \E r \in ConcRids : Synthesize(r)
  \/ \E r \in ConcRids : Dispatch(r)
  \/ \E r \in ConcRids : SandboxFetch(r)
  \/ \E r \in ConcRids : ParseJson(r)
  \/ \E r \in ConcRids : Respond(r)

SpecConc == ConcInit /\ [][ConcNext]_vars

\* One POST of a source text, followed up to the return of compileCode, with
\* longer lists of diagnostics from the engine and few lowered texts.
CheckRequests ==
  {[method |-> "POST", pathname |-> "/", query |-> <<>>, body |-> <<"a">>]}

CheckEmitResults ==
  {[files |-> f, diagnostics |-> ds] :
     f \in { <<>>,
             <<[fileName |-> <<"/input", ".js">>, text |-> <<"const x = 1;">>]>>,
             <<[fileName |-> <<"/input", ".js">>,
                text |-> <<"async function codemode() { return ", "2", " }">>]>> },
     ds \in SeqsUpTo(EngineDiags, MaxEmitCheck)}

CheckCompile(r) ==
  CheckOn(r, SeqsUpTo(EngineDiags, MaxPreCheck), CheckEmitResults)

CheckInit ==
  /\ \E q \in CheckRequests : reqs = [r \in Rids |-> locals(q)]
  /\ issued = {}
  /\ calls = <<>>

CheckNext ==
  \/ \E r \in Rids : Route(r)
  \/ \E r \in Rids : Decode(r)
  \/ \E r \in Rids : Validate(r)
  \/ \E r \in Rids : CheckCompile(r)

SpecCheck == CheckInit /\ [][CheckNext]_vars

-----------------------------------------------------------------------------
(* The call-forwarding proxy: stubStub and callMethodImpl (src/src/stub-stub.ts) *)

\* text.includes(part): part occurs in text as a contiguous run.
occurrences(text, part) ==
  {k \in 0..(Len(text) - Len(part)) : SubSeq(text, k + 1, k + Len(part)) = part}

includes(text, part) == occurrences(text, part) # {}

\* text.split("\n").slice(1).join("\n"): the text after the first newline.
RECURSIVE afterFirstLine(_)
afterFirstLine(text) ==
  IF text = <<>> THEN <<>>
  ELSE IF Head(text) = "\n" THEN Tail(text)
  ELSE afterFirstLine(Tail(text))

\* What Error().stack can be where the proxy is called: undefined where the
\* platform has no stack property, otherwise "Error" and the frames.
PlatformStacks ==
  { <<>>,
    <<"Error">>,
    <<"Error", "\n", "    at Proxy.<anonymous>">>,
    <<"Error", "\n", "    at Proxy.<anonymous>", "\n", "    at handleStubStubDemo">> }

\* Line 39: Error().stack?.split("\n").slice(1).join("\n") || ""
captureCallerStack(platformStack) == afterFirstLine(platformStack)

\* Values a method can throw or reject with: an Error, a string, null,
\* undefined. stack is the own stack of an Error; withCaller says that the
\* stack goes on with the caller stack the callable was handed.
Thrown ==
  {[kind |-> "Error", name |-> "Error", message |-> m,
    stack |-> <<"Error: ">> \o m \o <<"\n", "    at Greeter.getGreeting">>,
    withCaller |-> w] :
     m \in {<<"Invalid language: de">>}, w \in BOOLEAN}
  \cup {[kind |-> "Error", name |-> "Error", message |-> <<>>, stack |-> <<>>,
         withCaller |-> FALSE]}
  \cup {[kind |-> k, name |-> "", message |-> <<"oops">>, stack |-> <<>>,
         withCaller |-> FALSE] : k \in {"string", "null", "undefined"}}

\* What a method of the target does when it is called.
Behaviours ==
  {[kind |-> k, value |-> "'Hello'", error |-> CHOOSE e \in Thrown : e.kind = "null"] :
     k \in {"return", "resolve"}}
  \cup {[kind |-> k, value |-> "undefined", error |-> e] :
          k \in {"throw", "reject"}, e \in Thrown}

\* The TypeError of calling a property that is not a function.
notAFunction ==
  [kind |-> "Error", name |-> "TypeError",
   message |-> <<"_this[params.method] is not a function">>,
   stack |-> <<"TypeError: _this[params.method] is not a function", "\n",
               "    at stubStub.callMethodImpl">>,
   withCaller |-> FALSE]

\* The TypeError of reading a property of null or undefined.
cannotReadStack ==
  [kind |-> "Error", name |-> "TypeError",
   message |-> <<"Cannot read properties of undefined (reading 'stack')">>,
   stack |-> <<"TypeError: Cannot read properties", "\n",
               "    at stubStub.callMethodImpl">>,
   withCaller |-> FALSE]

\* The properties asked of the proxy, and the targets: getGreeting is a
\* method, version a string, missing is no property; fetch is a method of some
\* targets; then is no property.
Props == {"raw", "fetch", "then", "getGreeting", "missing", "version"}

typeofMember(target, prop) ==
  CASE prop = "getGreeting" -> "function"
    [] prop = "version" -> "string"
    [] prop = "fetch" -> IF target.hasFetch THEN "function" ELSE "undefined"
    [] OTHER -> "undefined"

Targets == {[hasFetch |-> f, getGreeting |-> b] : f \in BOOLEAN, b \in Behaviours}

ArgLists == {<<>>, <<"{ language: 'de' }">>}

Contexts == {<<>>, <<[key |-> "demoName", value |-> "default"]>>}

\* String(error) of a thrown value.
stringOfThrown(error) ==
  CASE error.kind = "Error" ->
         IF error.message = <<>> THEN <<error.name>>
         ELSE <<error.name, ": ">> \o error.message
    [] error.kind = "string" -> error.message
    [] error.kind = "null" -> <<"null">>
    [] OTHER -> <<"undefined">>

\* The stack property of a thrown Error as the method built it.
stackOfThrown(error, callerStack) ==
  IF error.withCaller THEN error.stack \o <<"\n">> \o callerStack ELSE error.stack

\* await _this[params.method](...params.args), line 107: the value, or what is
\* thrown; a member that is no function is not called.
awaitMethod(callable, params) ==
  LET b == callable.getGreeting IN
  IF typeofMember(callable, params.method) # "function"
    THEN [invoked |-> 0, thrown |-> <<notAFunction>>, value |-> <<>>]
  ELSE IF b.kind \in {"return", "resolve"}
    THEN [invoked |-> 1, thrown |-> <<>>, value |-> <<b.value>>]
  ELSE [invoked |-> 1,
        thrown |-> <<[b.error EXCEPT
                        !.stack = stackOfThrown(b.error, params.callerStack)]>>,
        value |-> <<>>]

\* The catch block, line 110: String(error) and (error as Error).stack || "";
\* reading stack of null or undefined throws out of the catch block.
catchResult(error) ==
  IF error.kind \in {"null", "undefined"}
    THEN [rejected |-> <<cannotReadStack>>, result |-> <<>>]
    ELSE [rejected |-> <<>>,
          result |-> <<[ok |-> FALSE,
                        error |-> [message |-> stringOfThrown(error),
                                   stack |-> IF error.kind = "Error"
                                               THEN error.stack ELSE <<>>]]>>]

\* callMethodImpl, lines 101-112.
callMethodImpl(callable, params) ==
  LET awaited == awaitMethod(callable, params) IN
  IF awaited.thrown = <<>>
    THEN [invoked |-> awaited.invoked, rejected |-> <<>>,
          result |-> <<[ok |-> TRUE, result |-> awaited.value[1]]>>]
    ELSE [invoked |-> awaited.invoked,
          rejected |-> catchResult(awaited.thrown[1]).rejected,
          result |-> catchResult(awaited.thrown[1]).result]

\* Mutant of appendCallerStack: the caller stack is appended in every case.
appendCallerStackAlways(stack, callerStack) == stack \o <<"\n">> \o callerStack

\* Lines 51-54: error.stack = stack, and the caller stack after it unless the
\* stack includes it.
appendCallerStack(stack, callerStack) ==
  IF ~includes(stack, callerStack) THEN stack \o <<"\n">> \o callerStack ELSE stack

\* Lines 45-54: the Error the call through the proxy rejects with.
wrappedError(prop, error, callerStack) ==
  [name |-> "Error",
   message |-> error.message \o <<" (in stubStub ", prop, " call, raw error in 'cause')">>,
   cause |-> error,
   stack |-> appendCallerStack(error.stack, callerStack)]

\* A call through a proxy made by stubStub(target, context): prop is asked of
\* the proxy and, when a function comes back, called with args.
callFrame(target, context, prop, args, platformStack) ==
  [target |-> target, context |-> context, prop |-> prop, args |-> args,
   platformStack |-> platformStack, pc |-> "get", got |-> <<>>,
   callerStack |-> <<>>, callMethodCalls |-> <<>>, invocations |-> 0,
   impl |-> <<>>, settled |-> <<>>]

SetCall(c, f) == calls' = [calls EXCEPT ![c] = f] /\ UNCHANGED <<reqs, issued>>

\* The get trap, lines 32-38.
Get(c) ==
  LET f == calls[c] IN
  /\ f.pc = "get"
  /\ IF f.prop = "raw"
       THEN SetCall(c, [f EXCEPT !.pc = "done", !.got = <<"stub">>])
     ELSE IF f.prop \in {"fetch", "then"}
       THEN SetCall(c, [f EXCEPT
              !.pc = "done",
              !.got = IF typeofMember(f.target, f.prop) = "function"
                        THEN <<"value.bind(stub)">> ELSE <<"undefined">>])
     ELSE SetCall(c, [f EXCEPT !.pc = "call", !.got = <<"async (...args) => {}">>])

\* Lines 39-41 up to the await: the caller stack is captured and callMethod
\* of the target is called.
Invoke(c) ==
  LET f == calls[c]
      callerStack == captureCallerStack(f.platformStack)
      params == [method |-> f.prop, args |-> f.args, context |-> f.context,
                 callerStack |-> callerStack]
  IN
  /\ f.pc = "call"
  /\ SetCall(c, [f EXCEPT !.pc = "callMethod", !.callerStack = callerStack,
                          !.callMethodCalls = Append(f.callMethodCalls, params)])

\* callMethod of the target, which hands the call to callMethodImpl as the
\* Greeter of the demo does.
CallMethod(c) ==
  LET f == calls[c]
      params == f.callMethodCalls[Len(f.callMethodCalls)]
      impl == callMethodImpl(f.target, params)
  IN
  /\ f.pc = "callMethod"
  /\ SetCall(c, [f EXCEPT !.pc = "await",
                          !.invocations = f.invocations + impl.invoked,
                          !.impl = <<[rejected |-> impl.rejected,
                                      result |-> impl.result]>>])

\* Lines 41-56 after the await: the result, or the wrapped error; a rejection
\* of callMethod passes through.
Settle(c) ==
  LET f == calls[c]
      impl == f.impl[1]
  IN
  /\ f.pc = "await"
  /\ IF impl.rejected # <<>>
       THEN SetCall(c, [f EXCEPT !.pc = "done",
              !.settled = <<[state |-> "rejected", raw |-> TRUE,
                             error |-> impl.rejected[1]]>>])
     ELSE IF impl.result[1].ok
       THEN SetCall(c, [f EXCEPT !.pc = "done",
              !.settled = <<[state |-> "resolved", value |-> impl.result[1].result]>>])
     ELSE SetCall(c, [f EXCEPT !.pc = "done",
              !.settled = <<[state |-> "rejected", raw |-> FALSE,
                             error |-> wrappedError(f.prop, impl.result[1].error,
                                                     f.callerStack)]>>])

CallIds == {1}

StubInit ==
  /\ reqs = <<>>
  /\ issued = {}
  /\ \E target \in Targets, context \in Contexts, prop \in Props,
        args \in ArgLists, platformStack \in PlatformStacks :
       calls = [c \in CallIds |-> callFrame(target, context, prop, args, platformStack)]

StubNext ==
  \/ \E c \in CallIds : Get(c)
  \/ \E c \in CallIds : Invoke(c)
  \/ \E c \in CallIds : CallMethod(c)
  \/ \E c \in CallIds : Settle(c)

SpecStub == StubInit /\ [][StubNext]_vars

-----------------------------------------------------------------------------
(* Properties *)

\* The requests for which compileCode has returned.
Compiled == {r \in Rids : reqs[r].compileCalls > 0}

\* The requests the handler has answered.
Answered == {r \in Rids : reqs[r].pc = "done"}

errorCategory(diagnostics) ==
  \E i \in 1..Len(diagnostics) : diagnostics[i].category = "error"

\* C1: the check gate. LOADER.get and entrypoint.fetch are called only after
\* compileCode returned success = true; when it returned success = false the
\* request is answered 400 with success:false and the whole diagnostics list,
\* no module has been synthesized and the loader has not been called.
C1_CheckGate ==
  \A r \in Rids :
    LET l == reqs[r] IN
    /\ (l.loaderGets # <<>> \/ l.fetchCalls > 0 \/ l.wrappedJs # <<>>) =>
         (l.compileCalls = 1 /\ l.compileResult[1].success)
    /\ (r \in Compiled /\ ~l.compileResult[1].success) =>
         /\ l.pc = "done"
         /\ l.resp[1].status = 400
         /\ l.resp[1].body.success = FALSE
         /\ "diagnostics" \in DOMAIN l.resp[1].body
         /\ l.resp[1].body.diagnostics = l.compileResult[1].diagnostics
         /\ l.wrappedJs = <<>>
         /\ l.loaderGets = <<>>
         /\ l.fetchCalls = 0

C1_Witness ==
  \E r \in Compiled :
    /\ ~reqs[r].compileResult[1].success
    /\ Len(reqs[r].compileResult[1].diagnostics) = 2
    /\ reqs[r].pc = "done"

C3_NoJsOnFailure ==
  \A r \in Compiled :
    ~reqs[r].compileResult[1].success => reqs[r].compileResult[1].js = <<>>

C3_Witness ==
  \E r \in Compiled :
    /\ ~reqs[r].compileResult[1].success
    /\ reqs[r].compileResult[1].js = <<>>
    /\ reqs[r].engine[1].emit = <<>>

\* The classes of requests, read off the request and the path it took.
allWs(text) == \A i \in 1..Len(text) : text[i] = WS

blankPost(q) ==
  /\ q.method = "POST"
  /\ IF startsWith(q.body, LBrace)
       THEN /\ JSONparse(q.body).ok
            /\ JSONparse(q.body).codeType = "string"
            /\ allWs(JSONparse(q.body).code)
       ELSE allWs(q.body)

\* The requests to a path other than that of the demo page.
offDemoRoute(q) == q.pathname # "/stub-stub"

badMethod(q) == q.method \notin {"GET", "POST", "OPTIONS"}

checkFailed(r) == r \in Compiled /\ ~reqs[r].compileResult[1].success

passedCheck(r) == r \in Compiled /\ reqs[r].compileResult[1].success

\* The harness answered, and the sandbox delivered its answer.
harnessAnswered(r) ==
  /\ reqs[r].response # <<>>
  /\ reqs[r].response[1].parseable

\* The guest program of the request, once compiled.
guestOf(r) == guestProgram(reqs[r].compileResult[1].js)

missingCodemode(r) ==
  passedCheck(r) /\ harnessAnswered(r) /\ guestOf(r).typeofCodemode # "function"

\* The JSON failure responses of the handler.
Failures ==
  {r \in Answered : /\ reqs[r].resp[1].contentType = "application/json"
                    /\ ~reqs[r].resp[1].body.success}

\* C4 as claimed: the status alone tells the failure class: 400 only for an
\* empty source or a check failure, 405 only for an unsupported method, 500
\* only for an execution failure, and every failure after a successful check
\* is answered 500.
C4_StatusTellsClass ==
  \A r \in Failures :
    LET l == reqs[r]
        status == l.resp[1].status
    IN /\ status \in {400, 405, 500}
       /\ status = 400 => (blankPost(l.request) \/ checkFailed(r))
       /\ status = 405 => badMethod(l.request)
       /\ status = 500 => passedCheck(r)
       /\ passedCheck(r) => status = 500

\* C4 as amended: as claimed, except that the harness's report of a module
\* without a codemode function is a failure after a successful check that is
\* answered 400; every other failure after a successful check is answered 500.
C4_StatusTellsClassButCodemode ==
  \A r \in Failures :
    LET l == reqs[r]
        status == l.resp[1].status
    IN /\ status \in {400, 405, 500}
       /\ status = 400 =>
            (blankPost(l.request) \/ checkFailed(r) \/ missingCodemode(r))
       /\ status = 405 => badMethod(l.request)
       /\ status = 500 => passedCheck(r)
       /\ passedCheck(r) => status = IF missingCodemode(r) THEN 400 ELSE 500

C4_Witness ==
  \E r \in Failures :
    /\ missingCodemode(r)
    /\ reqs[r].resp[1].status = 400
    /\ reqs[r].compileResult[1].js = <<"const codemode = 1;">>

\* The JSON responses of the handler.
JsonResponses ==
  {r \in Answered : reqs[r].resp[1].contentType = "application/json"}

C6_EmptyBody ==
  \A r \in Rids :
    LET l == reqs[r] IN
    blankPost(l.request) =>
      /\ l.pc \in {"start", "decode", "validate", "done"}
      /\ l.compileCalls = 0
      /\ l.loaderGets = <<>>
      /\ l.fetchCalls = 0
      /\ l.pc = "done" =>
           /\ l.resp[1].status = 400
           /\ l.resp[1].body =
                [success |-> FALSE,
                 error |-> <<"Request body is empty. Please provide TypeScript code.">>]

\* C6, amended: the same for every POST to a path other than /stub-stub.
C6_EmptyBodyOffDemoRoute ==
  \A r \in Rids :
    LET l == reqs[r] IN
    (blankPost(l.request) /\ offDemoRoute(l.request)) =>
      /\ l.pc \in {"start", "decode", "validate", "done"}
      /\ l.compileCalls = 0
      /\ l.loaderGets = <<>>
      /\ l.fetchCalls = 0
      /\ l.pc = "done" =>
           /\ l.resp[1].status = 400
           /\ l.resp[1].body =
                [success |-> FALSE,
                 error |-> <<"Request body is empty. Please provide TypeScript code.">>]

C6_Witness ==
  \E r \in Answered :
    /\ reqs[r].request.body = <<LBrace, CodeKey, "\" \"", RBrace>>
    /\ reqs[r].resp[1].status = 400

\* C7: the handler never throws: every POST, whatever its body, is answered with
\* a response that has a success field.
C7_NeverThrows ==
  \A r \in Rids :
    reqs[r].request.method = "POST" =>
      /\ reqs[r].pc # "thrown"
      /\ reqs[r].pc = "done" => "success" \in DOMAIN reqs[r].resp[1].body

\* C8: a failure of the sandbox stage (LOADER.get, getEntrypoint,
\* entrypoint.fetch, response.json) is caught and answered 500 with
\* success:false, an error that begins with "Execution failed: " and no
\* diagnostics; past the check no exception leaves the handler.
C8_SandboxFailureCaught ==
  \A r \in Rids :
    LET l == reqs[r] IN
    /\ l.caught # <<>> =>
         /\ l.pc = "done"
         /\ l.resp[1].status = 500
         /\ l.resp[1].contentType = "application/json"
         /\ l.resp[1].body.success = FALSE
         /\ l.resp[1].body.error = <<"Execution failed: ">> \o l.caught[1].message
         /\ "diagnostics" \notin DOMAIN l.resp[1].body
    /\ passedCheck(r) => l.pc # "thrown"
    /\ (l.pc = "done" /\ l.response # <<>> /\ ~l.response[1].parseable) =>
         l.caught # <<>>

C8_Witness ==
  \E r \in Answered :
    /\ reqs[r].caught # <<>>
    /\ reqs[r].caught[1].stage = "response.json"
    /\ reqs[r].resp[1].status = 500

\* The JSON text of the values codemode returns in this model.
expectedJson(value) ==
  CASE value = "2" -> "2"
    [] value = "'hi'" -> "\"hi\""
    [] value = "null" -> "null"
    [] value = "NaN" -> "null"
    [] value = "10n" -> "10"

\* The requests whose source has no error diagnostic, whose codemode returned
\* a value, and whose sandbox loaded and ran normally.
Returned ==
  {r \in Answered : /\ passedCheck(r)
                    /\ ~errorCategory(reqs[r].compileResult[1].diagnostics)
                    /\ guestOf(r).outcome = "return"
                    /\ harnessAnswered(r)
                    /\ reqs[r].caught = <<>>}

resultIs(r, value) ==
  LET l == reqs[r] IN
  /\ l.resp[1].status = 200
  /\ l.resp[1].contentType = "application/json"
  /\ l.resp[1].body.success = TRUE
  /\ IF value = "undefined"
       THEN "result" \notin DOMAIN l.resp[1].body
       ELSE /\ "result" \in DOMAIN l.resp[1].body
            /\ l.resp[1].body.result = expectedJson(value)

expectedError(g) ==
  IF g.isError THEN (IF g.message = <<"boom">> THEN <<"boom">> ELSE <<>>)
  ELSE IF g.value = "'oops'" THEN <<"oops">>
  ELSE <<"42">>

\* C10: when codemode throws or rejects, the harness answers with data: status
\* 500, success:false, error the Error's message (String of another value)
\* and no diagnostics, and the handler passes that status and body on unchanged.
C10_GuestThrowIsData ==
  \A r \in Rids :
    LET l == reqs[r] IN
    (passedCheck(r) /\ harnessAnswered(r) /\ guestOf(r).outcome = "throw") =>
      /\ l.response[1].status = 500
      /\ l.response[1].json =
           [success |-> FALSE, error |-> expectedError(guestOf(r))]
      /\ l.pc \in {"json", "respond", "done"}
      /\ l.pc = "done" =>
           /\ l.caught = <<>>
           /\ l.resp[1].status = 500
           /\ l.resp[1].contentType = "application/json"
           /\ l.resp[1].body = l.response[1].json

C10_Witness ==
  \E r \in Answered :
    /\ passedCheck(r)
    /\ guestOf(r).outcome = "throw"
    /\ guestOf(r).isError
    /\ reqs[r].resp[1].status = 500
    /\ reqs[r].resp[1].body = [success |-> FALSE, error |-> <<"boom">>]

\* C11: when the checked source defines no function codemode, the harness
\* answers 400, success:false, with an error that names 'codemode' and no
\* diagnostics, and it does not call codemode.
C11_MissingCodemode ==
  \A r \in Rids :
    LET l == reqs[r] IN
    missingCodemode(r) =>
      /\ l.response[1].status = 400
      /\ DOMAIN l.response[1].json = {"success", "error"}
      /\ l.response[1].json.success = FALSE
      /\ l.response[1].json.error[1]
           = "No 'codemode' function found. Your code must define: "
      /\ l.codemodeCalls = 0
      /\ l.pc = "done" => l.resp[1].body = l.response[1].json

C11_Witness ==
  \E r \in Answered :
    /\ missingCodemode(r)
    /\ reqs[r].compileResult[1].js = <<"const x = 1;">>
    /\ reqs[r].codemodeCalls = 0
    /\ reqs[r].resp[1].status = 400

\* C12: at most once. In one request LOADER.get is called at most once,
\* entrypoint.fetch at most once, codemode at most once per fetch and exactly
\* once when it is a function and the harness answers; a request that entered
\* the catch block is finished, nothing is tried again.
C12_AtMostOnce ==
  \A r \in Rids :
    LET l == reqs[r] IN
    /\ Len(l.loaderGets) <= 1
    /\ l.fetchCalls <= 1
    /\ l.fetchCalls <= Len(l.loaderGets)
    /\ l.codemodeCalls <= l.fetchCalls
    /\ l.compileCalls <= 1
    /\ (passedCheck(r) /\ harnessAnswered(r)) =>
         l.codemodeCalls = IF guestOf(r).typeofCodemode = "function" THEN 1 ELSE 0
    /\ l.caught # <<>> => l.pc = "done"

C12_Witness ==
  \E r \in Answered :
    /\ reqs[r].caught # <<>>
    /\ reqs[r].caught[1].stage = "entrypoint.fetch"
    /\ Len(reqs[r].loaderGets) = 1
    /\ reqs[r].fetchCalls = 1

\* C14: every call of LOADER.get hands over the synthesized module as the only
\* module, code.js, which is the main module, with globalOutbound null and an
\* empty env; the module is the harness around the lowered code.
C14_SandboxRequest ==
  \A r \in Rids :
    \A i \in 1..Len(reqs[r].loaderGets) :
      LET code == reqs[r].loaderGets[i].code IN
      /\ DOMAIN code.modules = {"code.js"}
      /\ code.mainModule = "code.js"
      /\ code.modules["code.js"] = reqs[r].wrappedJs
      /\ reqs[r].wrappedJs =
           <<"\n">> \o reqs[r].compileResult[1].js \o <<"\n\n", Harness, "\n">>
      /\ code.globalOutbound = "null"
      /\ code.env = {}

C14_Witness ==
  \E r \in Rids :
    /\ Len(reqs[r].loaderGets) = 1
    /\ reqs[r].compileResult[1].js # <<>>
    /\ reqs[r].pc = "awaitFetch"

\* The preflight and the pages, which are not JSON envelopes.
infoPage ==
  [status |-> 200, contentType |-> "text/html", allowOrigin |-> "*",
   body |-> [html |-> "write some typescript code below"]]

untouchedPipeline(l) ==
  /\ l.compileCalls = 0
  /\ l.loaderGets = <<>>
  /\ l.fetchCalls = 0
  /\ l.wrappedJs = <<>>

\* C15: a request whose method is not GET, POST or OPTIONS is answered 405
\* with success:false and "Method not allowed", without diagnostics, and
\* neither compileCode nor the loader is called for it.
C15_MethodNotAllowed ==
  \A r \in Rids :
    LET l == reqs[r] IN
    badMethod(l.request) =>
      /\ l.pc \in {"start", "done"}
      /\ untouchedPipeline(l)
      /\ l.pc = "done" =>
           /\ l.resp[1].status = 405
           /\ l.resp[1].body =
                [success |-> FALSE, error |-> <<"Method not allowed">>]

\* C15, amended: the same for every request to a path other than /stub-stub.
C15_MethodNotAllowedOffDemoRoute ==
  \A r \in Rids :
    LET l == reqs[r] IN
    (badMethod(l.request) /\ offDemoRoute(l.request)) =>
      /\ l.pc \in {"start", "done"}
      /\ untouchedPipeline(l)
      /\ l.pc = "done" =>
           /\ l.resp[1].status = 405
           /\ l.resp[1].body =
                [success |-> FALSE, error |-> <<"Method not allowed">>]

C15_Witness ==
  \E r \in Answered :
    /\ reqs[r].request.method = "PUT"
    /\ reqs[r].request.pathname = "/"
    /\ reqs[r].resp[1].status = 405

\* C16: an OPTIONS request is answered 204 with an empty body and the
\* permissive cross-origin headers, and neither compileCode nor the loader
\* is called for it.
C16_Preflight204 ==
  \A r \in Rids :
    LET l == reqs[r] IN
    l.request.method = "OPTIONS" =>
      /\ l.pc \in {"start", "done"}
      /\ untouchedPipeline(l)
      /\ l.pc = "done" =>
           /\ l.resp[1].status = 204
           /\ l.resp[1].body = [null |-> TRUE]
           /\ l.resp[1].allowOrigin = "*"

\* C16, amended: an OPTIONS request to a path other than /stub-stub is answered
\* 200 with an empty body and the headers Access-Control-Allow-Origin *,
\* Allow-Methods POST, OPTIONS and Allow-Headers Content-Type, and neither
\* compileCode nor the loader is called for it.
C16_Preflight200OffDemoRoute ==
  \A r \in Rids :
    LET l == reqs[r] IN
    (l.request.method = "OPTIONS" /\ offDemoRoute(l.request)) =>
      /\ l.pc \in {"start", "done"}
      /\ untouchedPipeline(l)
      /\ l.pc = "done" =>
           /\ l.resp[1].status = 200
           /\ l.resp[1].body = [null |-> TRUE]
           /\ l.resp[1].allowOrigin = "*"
           /\ l.resp[1].allowMethods = "POST, OPTIONS"
           /\ l.resp[1].allowHeaders = "Content-Type"

C16_Witness ==
  \E r \in Answered :
    /\ reqs[r].request.method = "OPTIONS"
    /\ reqs[r].request.pathname = "/"
    /\ reqs[r].resp[1].status = 200
    /\ reqs[r].resp[1].body = [null |-> TRUE]

\* The POST requests whose body has been decoded, and what decoding a body
\* as JSON or as raw text gives.
decodedPost(r) ==
  /\ reqs[r].request.method = "POST"
  /\ offDemoRoute(reqs[r].request)
  /\ reqs[r].pc \notin {"start", "decode"}

takenAsJson(r) ==
  LET parsed == JSONparse(reqs[r].request.body) IN
  IF parsed.ok /\ parsed.codeType = "string"
    THEN reqs[r].pc # "thrown" /\ reqs[r].code = trim(parsed.code)
    ELSE reqs[r].pc = "thrown"

takenAsText(r) ==
  /\ reqs[r].pc # "thrown"
  /\ reqs[r].code = trim(reqs[r].request.body)

\* C19: a POST body is decoded as a JSON object with the source in its code
\* field exactly when the trimmed body starts with "{"; otherwise the whole
\* body is the source text.
C19_JsonIffTrimmedBrace ==
  \A r \in Rids :
    decodedPost(r) =>
      IF startsWith(trim(reqs[r].request.body), LBrace)
        THEN takenAsJson(r)
        ELSE takenAsText(r)

\* C19, amended: a POST body is decoded as a JSON object with the source in
\* its code field exactly when the body as received, untrimmed, starts with
\* "{"; otherwise the whole body is the source text.
C19_JsonIffBrace ==
  \A r \in Rids :
    decodedPost(r) =>
      IF startsWith(reqs[r].request.body, LBrace)
        THEN takenAsJson(r)
        ELSE takenAsText(r)

C19_Witness ==
  \E r \in Rids :
    /\ decodedPost(r)
    /\ reqs[r].request.body = <<WS, LBrace, CodeKey, "\"a\"", RBrace>>
    /\ reqs[r].code = <<LBrace, CodeKey, "\"a\"", RBrace>>
    /\ reqs[r].compileCalls = 1

\* The code parameter of a GET: absent, empty or whitespace-only, or not.
blankQuery(q) == q.query = <<>> \/ allWs(q.query[1])

\* C20: a GET whose code parameter is absent, empty or whitespace-only is
\* answered 200 with the information page, and neither compileCode nor the
\* loader is called for it; a GET with other code goes through the pipeline
\* as a POST of that source does: the trimmed parameter is compiled once and
\* the answer is a JSON envelope.
C20_GetPageOrPipeline ==
  \A r \in Rids :
    LET l == reqs[r] IN
    l.request.method = "GET" =>
      /\ l.pc # "stubDemo"
      /\ blankQuery(l.request) =>
           /\ l.pc \in {"start", "decode", "validate", "done"}
           /\ untouchedPipeline(l)
           /\ l.pc = "done" => l.resp[1] = infoPage
      /\ ~blankQuery(l.request) =>
           /\ l.pc \notin {"start", "decode"} => l.code = trim(l.request.query[1])
           /\ l.pc \notin {"start", "decode", "validate"} => l.code # <<>>
           /\ l.pc = "done" =>
                /\ l.compileCalls = 1
                /\ l.resp[1].contentType = "application/json"

\* C20, amended: the same for every GET to a path other than /stub-stub.
C20_GetPageOrPipelineOffDemoRoute ==
  \A r \in Rids :
    LET l == reqs[r] IN
    (l.request.method = "GET" /\ offDemoRoute(l.request)) =>
      /\ l.pc # "stubDemo"
      /\ blankQuery(l.request) =>
           /\ l.pc \in {"start", "decode", "validate", "done"}
           /\ untouchedPipeline(l)
           /\ l.pc = "done" => l.resp[1] = infoPage
      /\ ~blankQuery(l.request) =>
           /\ l.pc \notin {"start", "decode"} => l.code = trim(l.request.query[1])
           /\ l.pc \notin {"start", "decode", "validate"} => l.code # <<>>
           /\ l.pc = "done" =>
                /\ l.compileCalls = 1
                /\ l.resp[1].contentType = "application/json"

C20_Witness ==
  \E r \in Answered :
    /\ reqs[r].request.method = "GET"
    /\ reqs[r].request.query = << <<WS>> >>
    /\ reqs[r].resp[1] = infoPage

\* The phases in the order the specification gives them.
PhaseOrder == <<"decode", "check", "synthesize", "dispatch", "respond">>

rank(phase) == CHOOSE i \in 1..Len(PhaseOrder) : PhaseOrder[i] = phase

phasesInOrder(l) ==
  /\ \A i, j \in 1..Len(l.phases) : i < j => rank(l.phases[i]) < rank(l.phases[j])
  /\ l.wrappedJs # <<>> =>
       /\ l.compileCalls = 1
       /\ l.compileResult # <<>>
       /\ l.phases = <<"decode", "check", "synthesize">> \o SubSeq(l.phases, 4, Len(l.phases))
  /\ l.loaderGets # <<>> =>
       /\ l.wrappedJs # <<>>
       /\ SubSeq(l.phases, 1, 4) = <<"decode", "check", "synthesize", "dispatch">>
  /\ Len(l.resp) <= 1

\* C17: in a request the phases decode, check, synthesize, dispatch, respond
\* run in that order, each at most once; compileCode has returned before the
\* module is synthesized, the module is synthesized before the loader is
\* called, and a request that has ended has exactly one response.
C17_PhasesThenOneResponse ==
  \A r \in Rids :
    /\ phasesInOrder(reqs[r])
    /\ reqs[r].pc \in {"done", "thrown"} =>
         /\ Len(reqs[r].resp) = 1
         /\ reqs[r].phases[Len(reqs[r].phases)] = "respond"

\* The calls of LOADER.get made so far, as pairs of request and position.
loaderCalls ==
  UNION {{<<r, i>> : i \in 1..Len(reqs[r].loaderGets)} : r \in DOMAIN reqs}

idOf(c) == reqs[c[1]].loaderGets[c[2]].id

\* C13: one sandbox per request. Every call of LOADER.get is made with the
\* identifier generated for that request; no two calls, of the same or of
\* different requests, with the same or with different source text, are made
\* with the same identifier.
C13_FreshIdentifiers ==
  /\ \A c, d \in loaderCalls : c # d => idOf(c) # idOf(d)
  /\ \A c \in loaderCalls : idOf(c) \in issued /\ reqs[c[1]].workerId = <<idOf(c)>>
  /\ \A r \in DOMAIN reqs : Len(reqs[r].loaderGets) <= 1

C13_Witness ==
  \E r, q \in DOMAIN reqs :
    /\ r # q
    /\ reqs[r].request = reqs[q].request
    /\ reqs[r].code = <<"a">> /\ reqs[q].code = <<"a">>
    /\ reqs[r].wrappedJs = reqs[q].wrappedJs
    /\ reqs[r].pc = "awaitFetch" /\ reqs[q].pc = "awaitFetch"
    /\ reqs[r].workerId # reqs[q].workerId

\* What the handler answers to a request handled alone, given the answers of
\* the engine and of the sandbox that the request got.
aloneCompile(l) ==
  compileCode(l.engine[1].allDiagnostics,
              IF l.engine[1].emit = <<>> THEN [files |-> <<>>, diagnostics |-> <<>>]
              ELSE l.engine[1].emit[1])

aloneSandbox(l) ==
  IF l.caught # <<>>
    THEN executionFailed(l.caught[1].message)
    ELSE LET answer == harnessFetch(moduleBody(wrapJs(aloneCompile(l).js)))
         IN jsonResponse(answer.json, answer.status)

aloneResponse(l) ==
  LET q == l.request
      code == decode(q).code
  IN
  IF q.pathname = "/stub-stub"
    THEN [status |-> 200, contentType |-> "text/html", allowOrigin |-> "none",
          body |-> [html |-> "stubStub Demo"]]
  ELSE IF q.method = "OPTIONS" THEN preflightResponse
  ELSE IF q.method \notin {"GET", "POST"} THEN methodNotAllowed
  ELSE IF code = <<>> /\ q.method = "GET" THEN infoPage
  ELSE IF code = <<>>
    THEN jsonResponse(
           [success |-> FALSE,
            error |-> <<"Request body is empty. Please provide TypeScript code.">>],
           400)
  ELSE IF ~aloneCompile(l).success THEN checkFailure(aloneCompile(l))
  ELSE aloneSandbox(l)

answersAsAlone ==
  \A r \in DOMAIN reqs :
    /\ reqs[r].pc = "done" => reqs[r].resp = <<aloneResponse(reqs[r])>>
    /\ reqs[r].pc = "thrown" =>
         /\ reqs[r].resp = <<>>
         /\ reqs[r].thrown = decode(reqs[r].request).thrown

\* A step writes the locals of one request only.
writesOwnLocals ==
  \A r \in DOMAIN reqs :
    reqs'[r] # reqs[r] => \A q \in DOMAIN reqs \ {r} : reqs'[q] = reqs[q]

\* C18: requests are independent. Whatever the interleaving of the requests
\* in flight, each request is answered as it would be when handled alone with
\* the same answers of the engine and of the sandbox, and handling a request
\* writes no state of another request.
C18_Independent == []answersAsAlone /\ [][writesOwnLocals]_vars

C18_Witness ==
  \E r, q \in DOMAIN reqs :
    /\ r # q
    /\ reqs[r].request = reqs[q].request
    /\ reqs[q].pc = "awaitFetch"
    /\ reqs[r].pc = "done"
    /\ reqs[r].resp[1].status = 200
    /\ reqs[q].compileResult[1].js # reqs[r].compileResult[1].js

\* The text the specification gives for one diagnostic and for a list.
located(d) == "line" \in DOMAIN d

summaryLine(d) ==
  IF located(d)
    THEN <<d.category, " TS", ToString(d.code), ":", ToString(d.line), ":",
           ToString(d.column), ": ">> \o d.message
    ELSE <<d.category, " TS", ToString(d.code), ": ">> \o d.message

RECURSIVE summary(_)
summary(ds) ==
  IF ds = <<>> THEN <<>>
  ELSE IF Len(ds) = 1 THEN summaryLine(ds[1])
  ELSE summary(SubSeq(ds, 1, Len(ds) - 1)) \o <<"\n">> \o summaryLine(ds[Len(ds)])

\* C21: formatDiagnostics renders a diagnostic as <category> TS<code>, then
\* :<line>:<column> exactly when it has a line, then ": " and the message, and
\* joins these in list order with newlines; the error of the check-failure
\* response is "TypeScript compilation failed:", a newline and that text over
\* the list that the response carries in its diagnostics field.
C21_Summary ==
  \A r \in Compiled :
    LET l == reqs[r]
        ds == l.compileResult[1].diagnostics
    IN
    /\ formatDiagnostics(ds) = summary(ds)
    /\ (checkFailed(r) /\ l.pc = "done") =>
         /\ l.resp[1].body.diagnostics = ds
         /\ l.resp[1].body.error =
              <<"TypeScript compilation failed:", "\n">>
                \o summary(l.resp[1].body.diagnostics)

C21_Witness ==
  \E r \in Answered :
    /\ checkFailed(r)
    /\ Len(reqs[r].resp[1].body.diagnostics) = 2
    /\ located(reqs[r].resp[1].body.diagnostics[1])
    /\ ~located(reqs[r].resp[1].body.diagnostics[2])
    /\ reqs[r].resp[1].body.diagnostics[2].category = "suggestion"

\* The diagnostics of a compileCode result that come from before the emit and
\* from the emit, told apart by the number of diagnostics the engine gave.
preEmit(l) ==
  SubSeq(l.compileResult[1].diagnostics, 1, Len(l.engine[1].allDiagnostics))

postEmit(l) ==
  SubSeq(l.compileResult[1].diagnostics, Len(l.engine[1].allDiagnostics) + 1,
         Len(l.compileResult[1].diagnostics))

emitted(l) == l.engine[1].emit # <<>>

\* C22: program.emit is called only when all pre-emit diagnostics have been
\* collected and none of them has category error; a warning, suggestion or
\* message never prevents the emit.
C22_EmitGate ==
  \A r \in Compiled :
    LET l == reqs[r] IN
    /\ Len(l.compileResult[1].diagnostics) >= Len(l.engine[1].allDiagnostics)
    /\ \A i \in 1..Len(l.engine[1].allDiagnostics) :
         preEmit(l)[i].code = l.engine[1].allDiagnostics[i].code
    /\ l.compileResult[1].emitCalls = IF errorCategory(preEmit(l)) THEN 0 ELSE 1
    /\ emitted(l) <=> l.compileResult[1].emitCalls = 1

C22_Witness ==
  \E r \in Compiled :
    /\ Len(preEmit(reqs[r])) = 2
    /\ preEmit(reqs[r])[1].category = "warning"
    /\ preEmit(reqs[r])[2].category = "suggestion"
    /\ emitted(reqs[r])
    /\ reqs[r].compileResult[1].js # <<>>

C24_LineAndColumn ==
  \A r \in Compiled :
    LET l == reqs[r]
        all == l.engine[1].allDiagnostics
    IN
    /\ \A i \in 1..Len(l.compileResult[1].diagnostics) :
         "line" \in DOMAIN l.compileResult[1].diagnostics[i]
           <=> "column" \in DOMAIN l.compileResult[1].diagnostics[i]
    /\ \A i \in 1..Len(all) :
         located(preEmit(l)[i]) =>
           /\ all[i].file /\ all[i].start # <<>>
           /\ preEmit(l)[i].line = all[i].lineAndChar.line + 1
           /\ preEmit(l)[i].column = all[i].lineAndChar.character
    /\ \A i \in 1..Len(postEmit(l)) : ~located(postEmit(l)[i])

C24_Witness ==
  \E r \in Compiled :
    /\ Len(preEmit(reqs[r])) = 2
    /\ located(preEmit(reqs[r])[1])
    /\ preEmit(reqs[r])[1].line = 2
    /\ preEmit(reqs[r])[1].column = 0
    /\ ~located(preEmit(reqs[r])[2])
    /\ Len(postEmit(reqs[r])) = 1
    /\ postEmit(reqs[r])[1].code = 2322

\* The calls for which callMethodImpl has returned or thrown.
Forwarded == {c \in DOMAIN calls : calls[c].impl # <<>>}

\* C25: callMethodImpl never rejects. Whatever the method name and the
\* arguments, and whether the method returns, throws, rejects or is missing,
\* it resolves to ok:true with the awaited result of the method or to ok:false
\* with an error that has a message and a stack, and it calls the method at
\* most once.
C25_ImplNeverRejects ==
  \A c \in Forwarded :
    LET f == calls[c]
        impl == f.impl[1]
    IN
    /\ f.invocations <= 1
    /\ impl.rejected = <<>>
    /\ impl.result # <<>>
    /\ IF impl.result[1].ok
         THEN /\ f.invocations = 1
              /\ f.target.getGreeting.kind \in {"return", "resolve"}
              /\ impl.result[1].result = f.target.getGreeting.value
         ELSE DOMAIN impl.result[1].error = {"message", "stack"}

\* The calls of a method through the proxy: any property but raw, fetch, then.
methodCall(c) == calls[c].prop \notin {"raw", "fetch", "then"}

\* C26: a call of a method m through the proxy calls callMethod of the target
\* exactly once, with m, the arguments, the context given to stubStub and the
\* caller stack captured at the call. When callMethod resolves ok:true the call
\* resolves to the result; when it resolves ok:false the call rejects with an
\* Error whose message contains the original message, whose cause is the raw
\* error and whose stack contains the caller stack exactly once, the caller
\* stack being appended only when the stack does not include it.
C26_ProxyForwards ==
  \A c \in DOMAIN calls :
    LET f == calls[c] IN
    methodCall(c) =>
      /\ f.pc \in {"get", "call"} => f.callMethodCalls = <<>>
      /\ f.pc \in {"callMethod", "await", "done"} =>
           f.callMethodCalls =
             <<[method |-> f.prop, args |-> f.args, context |-> f.context,
                callerStack |-> afterFirstLine(f.platformStack)]>>
      /\ (f.pc = "done" /\ f.impl[1].rejected = <<>>) =>
           LET result == f.impl[1].result[1]
               callerStack == afterFirstLine(f.platformStack)
           IN
           IF result.ok
             THEN f.settled = <<[state |-> "resolved", value |-> result.result]>>
             ELSE /\ f.settled[1].state = "rejected"
                  /\ f.settled[1].error.name = "Error"
                  /\ includes(f.settled[1].error.message, result.error.message)
                  /\ f.settled[1].error.cause = result.error
                  /\ 0 \in occurrences(f.settled[1].error.stack, result.error.stack)
                  /\ IF callerStack = <<>>
                       THEN f.settled[1].error.stack = result.error.stack
                       ELSE Cardinality(occurrences(f.settled[1].error.stack,
                                                    callerStack)) = 1

C26_Witness ==
  \E c \in DOMAIN calls :
    /\ calls[c].pc = "done"
    /\ calls[c].prop = "getGreeting"
    /\ calls[c].target.getGreeting.kind = "reject"
    /\ calls[c].target.getGreeting.error.withCaller
    /\ Len(calls[c].callerStack) = 3
    /\ calls[c].settled[1].state = "rejected"
    /\ calls[c].settled[1].error.stack = calls[c].impl[1].result[1].error.stack
    /\ calls[c].settled[1].error.message =
         <<"Error", ": ", "Invalid language: de", " (in stubStub ", "getGreeting",
           " call, raw error in 'cause')">>

====
